---- MODULE Spec2Model ----
(***************************************************************************)
(* A model of p9admin/client.py: the OpenStackClient facade over the       *)
(* identity (keystone) and infrastructure (openstack) SDKs.                *)
(*                                                                         *)
(* Remote objects are natural numbers; 0 stands for Python's None (and for *)
(* "no such remote object").  A remote call is one atomic step; the local  *)
(* statements of a method are folded into the step of the remote call they *)
(* follow.                                                                 *)
(***************************************************************************)
EXTENDS Naturals, Integers, Sequences, FiniteSets, TLC

\* -------------------------------------------- the identity service's names
GroupNames == {"g1", "g2"}
Emails     == {"e1", "e2"}
\* p9admin.User objects; o1 and o2 are distinct objects carrying one email.
UserObjs   == {"o1", "o2", "o3"}
OneClient  == {"c1"}
TwoClients == {"c1", "c2"}

Email(o) == IF o = "o3" THEN "e2" ELSE "e1"

VARIABLES
  \* --- identity service and the ensure_user / ensure_group calls
  remoteGroups,   \* [GroupNames -> Nat]: the remote group of that name, 0: none
  remoteUsers,    \* [Emails -> Nat]: the remote user of that name, 0: none
  nextId,         \* the id the remote gives to the next object it creates
  userObj,        \* [UserObjs -> Nat]: the field user.user, 0: None
  pc,             \* [client -> "idle" | "group_create" | "user_create"]
  arg,            \* [client -> the argument of the call in progress]
  groupCreates,   \* [client \X GroupNames -> Nat]: groups.create calls issued
  userCreates,    \* [client \X Emails -> Nat]: users.create calls issued
  createOnHeld,   \* set of names for which a create was issued while the remote held it
  groupReturned,  \* [GroupNames -> SUBSET Nat]: what ensure_group returned so far
  userReturned,   \* [Emails -> SUBSET Nat]: what ensure_user returned so far
  lastCall,       \* [client -> the last finished call and the remote calls it made]
  \* --- ensure_group_members on one group
  members,        \* the ids of the remote group's members
  eg,             \* the ensure_group_members call: its locals and the calls it issued
  \* --- role assignments: grant_project_access / revoke_project_access
  remoteRoles,    \* [RoleNames -> Nat]: the remote role of that name, 0: none
  assignments,    \* the remote role assignments <<role id, user, group, project>>
  roleCache,      \* the cache of the memoized role(): [<<client, name>> -> Nat], 0: no entry
  roleCall,       \* the last grant/revoke call, how it ended, the remote calls it made
  \* --- subnets() / subnet(id): a listing that seeds a memoized lookup
  remoteSubnets,  \* [SubnetIds -> 0..MaxVer]: the remote subnet's state, 0: no such subnet
  subnetCache,    \* the cache of the memoized subnet(): [<<client, id>> -> Nat], 0: no entry
  listing,        \* [client -> the generator subnets() returned: what it has left to yield]
  lastYield,      \* [<<client, id>> -> the object a listing yielded last for it, 0: none]
  memoCall,       \* the last subnet(id) call: the entry it found, its result, its remote call
  \* --- all_volumes() / volumes(project_id)
  remoteVolumes,  \* the all-tenant listing: the sequence of the volumes' project ids
  allVolumes,     \* the cache of the memoized all_volumes(): the one iterator it holds
  vgen            \* [slot -> a generator volumes(project_id) returned, what it yielded]

idVars == <<remoteGroups, remoteUsers, nextId, userObj, pc, arg, groupCreates,
            userCreates, createOnHeld, groupReturned, userReturned, lastCall>>

memVars == <<members, eg>>

roleVars == <<remoteRoles, assignments, roleCache, roleCall>>

memoVars == <<remoteSubnets, subnetCache, listing, lastYield, memoCall>>

volVars == <<remoteVolumes, allVolumes, vgen>>

vars == <<idVars, memVars, roleVars, memoVars, volVars>>

\* What the actions of one part leave alone.
idOthers == <<memVars, roleVars, memoVars, volVars>>
memOthers == <<idVars, roleVars, memoVars, volVars>>
roleOthers == <<idVars, memVars, memoVars, volVars>>
memoOthers == <<idVars, memVars, roleVars, volVars>>
volOthers == <<idVars, memVars, roleVars, memoVars>>

AllClients == TwoClients

NoCall == [op |-> "none", arg |-> "-", pre |-> 0, out |-> "return", ret |-> 0,
           calls |-> {}]

\* The remote starts with any subset of the names present, each name at most
\* once (keystone keeps names unique within a domain).
IdInit ==
  /\ remoteGroups \in [GroupNames -> {0, 1}]
  /\ remoteUsers \in [Emails -> {0, 2}]
  /\ nextId = 3
  /\ userObj = [o \in UserObjs |-> 0]
  /\ pc = [c \in AllClients |-> "idle"]
  /\ arg = [c \in AllClients |-> "-"]
  /\ groupCreates = [k \in AllClients \X GroupNames |-> 0]
  /\ userCreates = [k \in AllClients \X Emails |-> 0]
  /\ createOnHeld = {}
  /\ groupReturned = [n \in GroupNames |-> {}]
  /\ userReturned = [e \in Emails |-> {}]
  /\ lastCall = [c \in AllClients |-> NoCall]

\* keystone().groups.find(name=name), NotFound caught: the group or None.
find_group(name) == remoteGroups[name]

\* keystone().users.find(name=email), NotFound caught: the user or None.
_find_user(email) == remoteUsers[email]

\* Faulty variant: create whatever find_group returned.
GroupMissingAlways(group) == TRUE
\* "if group is not None: ... else: create"
GroupMissing(group) == group = 0

\* Faulty variant: create whatever find_user returned.
UserMissingAlways(user) == TRUE
\* "if user.user is not None: ... else: create"
UserMissing(user) == user = 0

\* Faulty variant: the early return on a set user.user is missing.
UserSetNever(user) == FALSE
\* "if user.user: return user.user"
UserSet(user) == user # 0

\* The record of a finished call: its argument, the value of user.user on
\* entry (pre), how it ended, what it returned and the remote calls it made.
Finished(c, op, a, pre, out, ret, calls) ==
  lastCall' = [lastCall EXCEPT ![c] =
                 [op |-> op, arg |-> a, pre |-> pre, out |-> out, ret |-> ret,
                  calls |-> calls]]

\* ensure_group up to the return of find_group: returns the group found, or
\* goes on to groups.create.
ensure_group(c, name) ==
  /\ UNCHANGED idOthers
  /\ pc[c] = "idle"
  /\ LET group == find_group(name) IN
       IF GroupMissing(group)
       THEN /\ pc' = [pc EXCEPT ![c] = "group_create"]
            /\ arg' = [arg EXCEPT ![c] = name]
            /\ UNCHANGED <<groupReturned, lastCall>>
       ELSE /\ groupReturned' = [groupReturned EXCEPT ![name] = @ \cup {group}]
            /\ Finished(c, "ensure_group", name, 0, "return", group, {"groups.find"})
            /\ UNCHANGED <<pc, arg>>
  /\ UNCHANGED <<remoteGroups, remoteUsers, nextId, userObj, groupCreates,
                 userCreates, createOnHeld, userReturned>>

\* ensure_group from groups.create on.  The remote rejects a second group of
\* the same name (409 Conflict), which the method does not catch.
ensure_group_create(c) ==
  /\ UNCHANGED idOthers
  /\ pc[c] = "group_create"
  /\ LET name == arg[c] IN
       /\ groupCreates' = [groupCreates EXCEPT ![<<c, name>>] = @ + 1]
       /\ createOnHeld' = IF remoteGroups[name] # 0 THEN createOnHeld \cup {name}
                          ELSE createOnHeld
       /\ IF remoteGroups[name] = 0
          THEN /\ remoteGroups' = [remoteGroups EXCEPT ![name] = nextId]
               /\ nextId' = nextId + 1
               /\ groupReturned' = [groupReturned EXCEPT ![name] = @ \cup {nextId}]
               /\ Finished(c, "ensure_group", name, 0, "return", nextId,
                           {"groups.find", "groups.create"})
          ELSE /\ UNCHANGED <<remoteGroups, nextId, groupReturned>>
               /\ Finished(c, "ensure_group", name, 0, "raise", 0,
                           {"groups.find", "groups.create"})
  /\ pc' = [pc EXCEPT ![c] = "idle"]
  /\ arg' = [arg EXCEPT ![c] = "-"]
  /\ UNCHANGED <<remoteUsers, userObj, userCreates, userReturned>>

\* find_user: given a User it stores what it found in user.user, given an
\* email it only returns it.
find_user(c, x) ==
  /\ UNCHANGED idOthers
  /\ pc[c] = "idle"
  /\ IF x \in UserObjs
     THEN /\ userObj' = [userObj EXCEPT ![x] = _find_user(Email(x))]
          /\ Finished(c, "find_user", x, 0, "return", _find_user(Email(x)),
                      {"users.find"})
     ELSE /\ UNCHANGED userObj
          /\ Finished(c, "find_user", x, 0, "return", _find_user(x), {"users.find"})
  /\ UNCHANGED <<remoteGroups, remoteUsers, nextId, pc, arg, groupCreates,
                 userCreates, createOnHeld, groupReturned, userReturned>>

\* ensure_user up to the return of find_user(user.email).
ensure_user(c, o) ==
  /\ UNCHANGED idOthers
  /\ pc[c] = "idle"
  /\ IF UserSet(userObj[o])
     THEN /\ userReturned' = [userReturned EXCEPT ![Email(o)] = @ \cup {userObj[o]}]
          /\ Finished(c, "ensure_user", o, userObj[o], "return", userObj[o], {})
          /\ UNCHANGED <<userObj, pc, arg>>
     ELSE LET found == _find_user(Email(o)) IN
          /\ userObj' = [userObj EXCEPT ![o] = found]
          /\ IF UserMissing(found)
             THEN /\ pc' = [pc EXCEPT ![c] = "user_create"]
                  /\ arg' = [arg EXCEPT ![c] = o]
                  /\ UNCHANGED <<userReturned, lastCall>>
             ELSE /\ userReturned' = [userReturned EXCEPT ![Email(o)] = @ \cup {found}]
                  /\ Finished(c, "ensure_user", o, userObj[o], "return", found,
                              {"users.find"})
                  /\ UNCHANGED <<pc, arg>>
  /\ UNCHANGED <<remoteGroups, remoteUsers, nextId, groupCreates, userCreates,
                 createOnHeld, groupReturned>>

\* ensure_user from users.create on.
ensure_user_create(c) ==
  /\ UNCHANGED idOthers
  /\ pc[c] = "user_create"
  /\ LET o == arg[c]
         e == Email(arg[c]) IN
       /\ userCreates' = [userCreates EXCEPT ![<<c, e>>] = @ + 1]
       /\ createOnHeld' = IF remoteUsers[e] # 0 THEN createOnHeld \cup {e}
                          ELSE createOnHeld
       /\ IF remoteUsers[e] = 0
          THEN /\ remoteUsers' = [remoteUsers EXCEPT ![e] = nextId]
               /\ nextId' = nextId + 1
               /\ userObj' = [userObj EXCEPT ![o] = nextId]
               /\ userReturned' = [userReturned EXCEPT ![e] = @ \cup {nextId}]
               /\ Finished(c, "ensure_user", o, 0, "return", nextId,
                           {"users.find", "users.create"})
          ELSE /\ UNCHANGED <<remoteUsers, nextId, userObj, userReturned>>
               /\ Finished(c, "ensure_user", o, 0, "raise", 0,
                           {"users.find", "users.create"})
  /\ pc' = [pc EXCEPT ![c] = "idle"]
  /\ arg' = [arg EXCEPT ![c] = "-"]
  /\ UNCHANGED <<remoteGroups, groupCreates, groupReturned>>

\* ------------------------------------------------ ensure_group_members

MaxEnsure == 3
Users == {"u1", "u2", "u3"}

\* The lists of at most MaxEnsure users a caller may pass (a list may name a
\* user twice).
EnsureLists == UNION {[1..n -> Users] : n \in 0..MaxEnsure}

\* set([u.id for u in ensure_users])
IdSet(list) == {list[i] : i \in DOMAIN list}

\* Faulty variant: nothing to add.
to_add_none(ensure_users, existing_users) == {}
\* to_add = ensure_users - existing_users
to_add(ensure_users, existing_users) == ensure_users \ existing_users

\* Faulty variant: keep_others ignored.
to_delete_always(ensure_users, existing_users, keep_others) ==
  existing_users \ ensure_users
\* to_delete: set() with keep_others, else existing_users - ensure_users
to_delete(ensure_users, existing_users, keep_others) ==
  IF keep_others THEN {} ELSE existing_users \ ensure_users

\* unchanged: existing_users with keep_others, else ensure_users & existing_users
unchanged(ensure_users, existing_users, keep_others) ==
  IF keep_others THEN existing_users ELSE ensure_users \cap existing_users

EgIdle == [pc |-> "idle", keep_others |-> FALSE, ensure_users |-> {},
           existing_users |-> {}, to_add |-> {}, to_delete |-> {},
           unchanged |-> {}, added |-> {}, deleted |-> {}]

MemInit ==
  /\ members \in SUBSET Users
  /\ eg = EgIdle

MemIdle ==
  /\ members = {}
  /\ eg = EgIdle

\* Where the method stands once `added` and `deleted` have been issued: in
\* the first loop, in the second, or past both (the logging that follows
\* makes no remote call).
EgPc(add, del, added, deleted) ==
  IF added # add THEN "adding"
  ELSE IF deleted # del THEN "deleting"
  ELSE "done"

\* ensure_group_members up to the return of users.list(group=group).
ensure_group_members(ensure_list, keep_others) ==
  /\ UNCHANGED memOthers
  /\ eg.pc \in {"idle", "done", "raised"}
  /\ LET existing_users == members
         ensure_users == IdSet(ensure_list)
         add == to_add(ensure_users, existing_users)
         del == to_delete(ensure_users, existing_users, keep_others) IN
       eg' = [pc |-> EgPc(add, del, {}, {}),
              keep_others |-> keep_others,
              ensure_users |-> ensure_users,
              existing_users |-> existing_users,
              to_add |-> add,
              to_delete |-> del,
              unchanged |-> unchanged(ensure_users, existing_users, keep_others),
              added |-> {},
              deleted |-> {}]
  /\ UNCHANGED members

\* One pass of "for user_id in to_add": users.add_to_group(user_id, group).
add_to_group(user_id) ==
  /\ UNCHANGED memOthers
  /\ eg.pc = "adding"
  /\ user_id \in eg.to_add \ eg.added
  /\ members' = members \cup {user_id}
  /\ eg' = [eg EXCEPT !.added = @ \cup {user_id},
                      !.pc = EgPc(eg.to_add, eg.to_delete, eg.added \cup {user_id},
                                  eg.deleted)]

\* One pass of "for user_id in to_delete": users.remove_from_group(user_id, group).
remove_from_group(user_id) ==
  /\ UNCHANGED memOthers
  /\ eg.pc = "deleting"
  /\ user_id \in eg.to_delete \ eg.deleted
  /\ members' = members \ {user_id}
  /\ eg' = [eg EXCEPT !.deleted = @ \cup {user_id},
                      !.pc = EgPc(eg.to_add, eg.to_delete, eg.added,
                                  eg.deleted \cup {user_id})]

\* A remote call of either loop fails: the exception leaves the method.
remote_call_raises ==
  /\ UNCHANGED memOthers
  /\ eg.pc \in {"adding", "deleting"}
  /\ eg' = [eg EXCEPT !.pc = "raised"]
  /\ UNCHANGED members

MemNext ==
  \/ \E ensure_list \in EnsureLists, keep_others \in BOOLEAN :
       ensure_group_members(ensure_list, keep_others)
  \/ \E user_id \in Users : add_to_group(user_id)
  \/ \E user_id \in Users : remove_from_group(user_id)
  \/ remote_call_raises

\* ------------------------------------- grant / revoke of project access

RoleNames == {"_member_", "admin"}
Projects  == {"p1", "p2"}
\* The user and the group arguments: None, or the one user / group.
UserArgs  == {"None", "u1"}
GroupArgs == {"None", "gA"}

\* The remote's answers to roles.check: True when the assignment is
\* present, False or a NotFound error when it is absent.
CheckAnswers(present) == IF present THEN {"True"} ELSE {"False", "NotFound"}

NoRoleCall == [op |-> "none", project |-> "-", user |-> "None", group |-> "None",
               role_name |-> "-", before |-> FALSE, out |-> "return",
               calls |-> {}, after_grant |-> FALSE]

RoleInit ==
  /\ remoteRoles \in {[r \in RoleNames |-> IF r = "_member_" THEN 1 ELSE a] : a \in {0, 2}}
  /\ assignments \in SUBSET {<<remoteRoles[r], ug[1], ug[2], p>> :
                               r \in {x \in RoleNames : remoteRoles[x] # 0},
                               ug \in {<<"u1", "None">>, <<"None", "gA">>},
                               p \in Projects}
  /\ roleCache = [k \in OneClient \X RoleNames |-> 0]
  /\ roleCall = NoRoleCall

RoleIdle ==
  /\ remoteRoles = [r \in RoleNames |-> 0]
  /\ assignments = {}
  /\ roleCache = [k \in OneClient \X RoleNames |-> 0]
  /\ roleCall = NoRoleCall

\* Faulty variant: the cache is never consulted.
memo_miss_always(cache, args) == TRUE
\* memoize: "if args not in cache"
memo_miss(cache, args) == cache[args] = 0

\* memoizer: what the call returns, `value` being what the wrapped function
\* returns when called now (0: it raises).
memoizer(cache, args, value) ==
  IF memo_miss(cache, args) THEN value ELSE cache[args]

\* memoizer: the cache after the call; a wrapped function that raises
\* leaves "cache[args] = obj(*args)" unexecuted.
memoizer_cache(cache, args, value) ==
  IF memo_miss(cache, args) /\ value # 0 THEN [cache EXCEPT ![args] = value]
  ELSE cache

\* Faulty variant: an entry already there is kept.
add_memo_keep_old(cache, args, memo) ==
  IF cache[args] = 0 THEN [cache EXCEPT ![args] = memo] ELSE cache
\* add_memo: obj.cache[args] = memo
add_memo(cache, args, memo) == [cache EXCEPT ![args] = memo]

\* Faulty variant: a user given together with a group is accepted.
one_subject_user_only(user, group) == user # "None"
\* "if user is None and group is not None ... elif user is not None and group
\* is None ... else: raise ValueError"
one_subject(user, group) ==
  \/ user = "None" /\ group # "None"
  \/ user # "None" /\ group = "None"

\* Faulty variant: a NotFound counts as present.
check_role_assignment_not_false(answer) == answer # "False"
\* check_role_assignment: True when roles.check returns true; a NotFound is
\* caught and gives False.
check_role_assignment(answer) == answer = "True"

\* The record of a finished grant or revoke.
RoleFinished(op, project, user, group, role_name, before, out, calls) ==
  roleCall' = [op |-> op, project |-> project, user |-> user, group |-> group,
               role_name |-> role_name, before |-> before, out |-> out,
               calls |-> calls,
               after_grant |-> /\ roleCall.op = "grant"
                               /\ roleCall.out = "return"
                               /\ ~roleCall.before
                               /\ roleCall.project = project
                               /\ roleCall.user = user
                               /\ roleCall.group = group
                               /\ roleCall.role_name = role_name]

\* grant: "if check: (found) else: roles.grant"; revoke: "if check:
\* roles.revoke else: (no access)".
Change(op, found) == IF op = "grant" THEN ~found ELSE found

\* The part grant and revoke share: the subject test, role(role_name), the
\* check, then roles.grant or roles.revoke as the check's outcome tells.
project_access(op, project, user, group, role_name, answer) ==
  LET key == <<"c1", role_name>>
      role == memoizer(roleCache, key, remoteRoles[role_name])
      find == IF memo_miss(roleCache, key) THEN {"roles.find"} ELSE {}
      a == <<role, user, group, project>>
      before == a \in assignments IN
    IF ~one_subject(user, group)
    THEN /\ RoleFinished(op, project, user, group, role_name, FALSE, "ValueError", {})
         /\ UNCHANGED <<remoteRoles, assignments, roleCache>>
    ELSE IF role = 0
    THEN /\ RoleFinished(op, project, user, group, role_name, FALSE, "NotFound", find)
         /\ roleCache' = memoizer_cache(roleCache, key, remoteRoles[role_name])
         /\ UNCHANGED <<remoteRoles, assignments>>
    ELSE /\ answer \in CheckAnswers(before)
         /\ roleCache' = memoizer_cache(roleCache, key, remoteRoles[role_name])
         /\ IF Change(op, check_role_assignment(answer))
            THEN /\ assignments' = IF op = "grant" THEN assignments \cup {a}
                                   ELSE assignments \ {a}
                 /\ RoleFinished(op, project, user, group, role_name, before, "return",
                                 find \cup {"roles.check", "roles." \o op})
            ELSE /\ UNCHANGED assignments
                 /\ RoleFinished(op, project, user, group, role_name, before, "return",
                                 find \cup {"roles.check"})
         /\ UNCHANGED remoteRoles

grant_project_access(project, user, group, role_name, answer) ==
  /\ UNCHANGED roleOthers
  /\ project_access("grant", project, user, group, role_name, answer)

revoke_project_access(project, user, group, role_name, answer) ==
  /\ UNCHANGED roleOthers
  /\ project_access("revoke", project, user, group, role_name, answer)

RoleNext ==
  \E project \in Projects, user \in UserArgs, group \in GroupArgs,
     role_name \in RoleNames, answer \in {"True", "False", "NotFound"} :
    \/ grant_project_access(project, user, group, role_name, answer)
    \/ revoke_project_access(project, user, group, role_name, answer)

\* ------------------------------------------------- subnets() and subnet(id)

MaxVer == 2
SubnetIds == {"s1", "s2"}
MemoClients == {"c1", "c2"}

NoMemoCall == [op |-> "none", client |-> "-", id |-> "-", cached |-> 0,
               yielded |-> 0, out |-> "return", ret |-> 0, remote |-> FALSE]

NoListing == [state |-> "none", buf |-> <<>>]

MemoStart ==
  /\ subnetCache = [k \in MemoClients \X SubnetIds |-> 0]
  /\ listing = [c \in MemoClients |-> NoListing]
  /\ lastYield = [k \in MemoClients \X SubnetIds |-> 0]
  /\ memoCall = NoMemoCall

MemoInit ==
  /\ remoteSubnets \in [SubnetIds -> {0, 1}]
  /\ MemoStart

MemoIdle ==
  /\ remoteSubnets = [i \in SubnetIds |-> 0]
  /\ MemoStart

\* openstack().network.subnets(): the subnets the remote holds, as <<id, state>>.
RemoteListing ==
  LET one(i) == IF remoteSubnets[i] = 0 THEN <<>> ELSE << <<i, remoteSubnets[i]>> >>
  IN one("s1") \o one("s2")

\* Another actor creates a subnet or changes one.
remote_subnet_changes(id) ==
  /\ UNCHANGED memoOthers
  /\ remoteSubnets[id] < MaxVer
  /\ remoteSubnets' = [remoteSubnets EXCEPT ![id] = @ + 1]
  /\ UNCHANGED <<subnetCache, listing, lastYield, memoCall>>

\* subnet(id), memoized: openstack().network.get_subnet(id) on a miss, which
\* raises when the remote has no such subnet.
subnet(c, id) ==
  /\ UNCHANGED memoOthers
  /\ LET args == <<c, id>>
         ret == memoizer(subnetCache, args, remoteSubnets[id]) IN
       /\ memoCall' = [op |-> "subnet", client |-> c, id |-> id,
                       cached |-> subnetCache[args],
                       yielded |-> lastYield[args],
                       out |-> IF ret = 0 THEN "raise" ELSE "return",
                       ret |-> ret,
                       remote |-> memo_miss(subnetCache, args)]
       /\ subnetCache' = memoizer_cache(subnetCache, args, remoteSubnets[id])
  /\ UNCHANGED <<remoteSubnets, listing, lastYield>>

\* subnets(): a generator; nothing of its body runs before the first next().
subnets(c) ==
  /\ UNCHANGED memoOthers
  /\ listing[c].state # "new"
  /\ listing' = [listing EXCEPT ![c] = [state |-> "new", buf |-> <<>>]]
  /\ UNCHANGED <<remoteSubnets, subnetCache, lastYield, memoCall>>

\* next() on the generator of subnets(): the first one fetches the remote
\* listing; each one that finds a subnet left memoizes it, then yields it.
next_subnet(c) ==
  /\ UNCHANGED memoOthers
  /\ listing[c].state \in {"new", "open"}
  /\ LET buf == IF listing[c].state = "new" THEN RemoteListing ELSE listing[c].buf IN
       IF buf = <<>>
       THEN /\ listing' = [listing EXCEPT ![c] = NoListing]
            /\ UNCHANGED <<subnetCache, lastYield>>
       ELSE LET args == <<c, Head(buf)[1]>>
                sn == Head(buf)[2] IN
            /\ subnetCache' = add_memo(subnetCache, args, sn)
            /\ lastYield' = [lastYield EXCEPT ![args] = sn]
            /\ listing' = [listing EXCEPT ![c] = [state |-> "open", buf |-> Tail(buf)]]
  /\ UNCHANGED <<remoteSubnets, memoCall>>

MemoNext ==
  \/ \E id \in SubnetIds : remote_subnet_changes(id)
  \/ \E c \in MemoClients, id \in SubnetIds : subnet(c, id)
  \/ \E c \in MemoClients : subnets(c)
  \/ \E c \in MemoClients : next_subnet(c)

\* ------------------------------------- all_volumes() and volumes(project_id)
\* (all_servers() and servers(project_id) are the same code over
\* compute.servers.)

MaxVolumes == 3
VolProjects == {"pA", "pB"}
Slots == {"a", "b"}

NoGen == [state |-> "none", project_id |-> "-", out |-> <<>>]

\* The iterator block_storage.volumes(details=True, all_tenants=True)
\* returns is one-pass: `pos` volumes of the listing are consumed.
NoIterator == [cached |-> FALSE, pos |-> 0]

VolInit ==
  /\ remoteVolumes \in UNION {[1..n -> VolProjects] : n \in 0..MaxVolumes}
  /\ allVolumes = NoIterator
  /\ vgen = [g \in Slots |-> NoGen]

VolIdle ==
  /\ remoteVolumes = <<>>
  /\ allVolumes = NoIterator
  /\ vgen = [g \in Slots |-> NoGen]

\* The volumes of the all-tenant listing (by position) that are of a project.
RECURSIVE OfProject(_, _)
OfProject(project_id, n) ==
  IF n = 0 THEN <<>>
  ELSE IF remoteVolumes[n] = project_id
       THEN Append(OfProject(project_id, n - 1), n)
       ELSE OfProject(project_id, n - 1)

\* all_volumes(), memoized: the iterator in the cache, or a new one.
all_volumes == IF allVolumes.cached THEN allVolumes ELSE [cached |-> TRUE, pos |-> 0]

\* The first volume of the project the iterator has not consumed yet, 0 when
\* it has none left.
NextMatch(it, project_id) ==
  LET rest == {i \in (it.pos + 1)..Len(remoteVolumes) : remoteVolumes[i] = project_id}
  IN IF rest = {} THEN 0 ELSE CHOOSE i \in rest : \A j \in rest : i <= j

\* volumes(project_id): a generator; nothing of its body runs before the
\* first next().
volumes(g, project_id) ==
  /\ UNCHANGED volOthers
  /\ vgen[g].state \in {"none", "done"}
  /\ vgen' = [vgen EXCEPT ![g] = [state |-> "new", project_id |-> project_id,
                                  out |-> <<>>]]
  /\ UNCHANGED <<remoteVolumes, allVolumes>>

\* next() on the generator of volumes(): the first one calls all_volumes();
\* each one takes volumes from the iterator up to the next one of the
\* project and yields it, or ends with the iterator.
next_volume(g) ==
  /\ UNCHANGED volOthers
  /\ vgen[g].state \in {"new", "running"}
  /\ LET it == IF vgen[g].state = "new" THEN all_volumes ELSE allVolumes
         i == NextMatch(it, vgen[g].project_id) IN
       IF i = 0
       THEN /\ allVolumes' = [it EXCEPT !.pos = Len(remoteVolumes)]
            /\ vgen' = [vgen EXCEPT ![g].state = "done"]
       ELSE /\ allVolumes' = [it EXCEPT !.pos = i]
            /\ vgen' = [vgen EXCEPT ![g].state = "running",
                                    ![g].out = Append(@, i)]
  /\ UNCHANGED remoteVolumes

VolNext ==
  \/ \E g \in Slots, project_id \in VolProjects : volumes(g, project_id)
  \/ \E g \in Slots : next_volume(g)

IdNext(C, names, objs) ==
  \E c \in C :
    \/ \E name \in names : ensure_group(c, name)
    \/ ensure_group_create(c)
    \/ \E x \in objs \cup {Email(o) : o \in objs} : find_user(c, x)
    \/ \E o \in objs : ensure_user(c, o)
    \/ ensure_user_create(c)

\* ---------------------------------------------------------- specifications

\* The identity variables while another part of the client is exercised.
IdIdle ==
  /\ remoteGroups = [n \in GroupNames |-> 0]
  /\ remoteUsers = [e \in Emails |-> 0]
  /\ IdInit

\* One client, no other actor.
Init == IdInit /\ MemIdle /\ RoleIdle /\ MemoIdle /\ VolIdle
Next == IdNext(OneClient, GroupNames, UserObjs)
Spec == Init /\ [][Next]_vars

\* Two clients against one remote, their remote calls interleaved, both after
\* the same group name and the same email.
RaceNames == {"g1"}
RaceObjs  == {"o1", "o2"}
NextRace == IdNext(TwoClients, RaceNames, RaceObjs)
SpecRace == Init /\ [][NextRace]_vars

\* ensure_group_members on one group, one client, no other actor.
InitMembers == MemInit /\ IdIdle /\ RoleIdle /\ MemoIdle /\ VolIdle
NextMembers == MemNext
SpecMembers == InitMembers /\ [][NextMembers]_vars

\* grant / revoke of project access, one client, no other actor.
InitRoles == RoleInit /\ IdIdle /\ MemIdle /\ MemoIdle /\ VolIdle
NextRoles == RoleNext
SpecRoles == InitRoles /\ [][NextRoles]_vars

\* subnets() and subnet(id) of two clients, the remote changing meanwhile.
InitMemo == MemoInit /\ IdIdle /\ MemIdle /\ RoleIdle /\ VolIdle
NextMemo == MemoNext
SpecMemo == InitMemo /\ [][NextMemo]_vars

\* volumes(project_id) of one client, up to two generators alive at a time.
InitVolumes == VolInit /\ IdIdle /\ MemIdle /\ RoleIdle /\ MemoIdle
NextVolumes == VolNext
SpecVolumes == InitVolumes /\ [][NextVolumes]_vars

\* ------------------------------------------------------------------ claims

GroupCreatesTotal(C, name) ==
  IF C = OneClient THEN groupCreates[<<"c1", name>>]
  ELSE groupCreates[<<"c1", name>>] + groupCreates[<<"c2", name>>]

UserCreatesTotal(C, e) ==
  IF C = OneClient THEN userCreates[<<"c1", e>>]
  ELSE userCreates[<<"c1", e>>] + userCreates[<<"c2", e>>]

\* C1: a successful ensure_group_members(keep_others=False) leaves exactly
\* the requested ids as members, has issued add_to_group exactly for the
\* requested non-members and remove_from_group exactly for the unrequested
\* members; while it runs it issues no call for a requested member.
C1_MembersReconciled ==
  ~eg.keep_others =>
    LET E == eg.existing_users
        R == eg.ensure_users IN
      /\ eg.added \subseteq R \ E
      /\ eg.deleted \subseteq E \ R
      /\ (eg.added \cup eg.deleted) \cap (R \cap E) = {}
      /\ eg.pc = "done" =>
           /\ members = R
           /\ eg.added = R \ E
           /\ eg.deleted = E \ R

\* C1 witness: a finished call that both added and removed a member and left
\* a third alone.
C1_Witness ==
  /\ eg.pc = "done"
  /\ ~eg.keep_others
  /\ eg.added # {}
  /\ eg.deleted # {}
  /\ eg.ensure_users \cap eg.existing_users # {}

\* C2: ensure_group_members(keep_others=True) issues no remove_from_group,
\* every initial member stays a member throughout, the reported unchanged
\* set is the initial membership and disjoint from what is added, and a
\* successful call leaves the initial members together with the requested.
C2_KeepOthers ==
  eg.keep_others =>
    LET E == eg.existing_users
        R == eg.ensure_users IN
      /\ eg.deleted = {}
      /\ eg.to_delete = {}
      /\ E \subseteq members
      /\ eg.unchanged = E
      /\ eg.unchanged \cap eg.to_add = {}
      /\ eg.added \subseteq R \ E
      /\ eg.pc = "done" =>
           /\ members = E \cup R
           /\ eg.added = R \ E

\* C2 witness: a finished keep_others call that added a user and kept a
\* member that was not requested.
C2_Witness ==
  /\ eg.pc = "done"
  /\ eg.keep_others
  /\ eg.added # {}
  /\ eg.existing_users \ eg.ensure_users # {}

\* C3: with one client and no other actor, over any sequence of ensure_group
\* calls groups.create is issued at most once per name and never for a name
\* the remote holds (so the client never makes the remote hold two groups of
\* one name), every ensure_group call returns, and all calls for one name
\* return the same group, the one the remote holds.
C3_EnsureGroupIdempotent ==
  /\ \A name \in GroupNames :
       /\ GroupCreatesTotal(OneClient, name) <= 1
       /\ name \notin createOnHeld
       /\ Cardinality(groupReturned[name]) <= 1
       /\ groupReturned[name] \subseteq {remoteGroups[name]} \ {0}
  /\ lastCall["c1"].op = "ensure_group" => lastCall["c1"].out = "return"

\* C3 witness: a group was created by one call and found, not created, by a
\* later call for the same name.
C3_Witness ==
  /\ GroupCreatesTotal(OneClient, "g1") = 1
  /\ lastCall["c1"].op = "ensure_group"
  /\ lastCall["c1"].arg = "g1"
  /\ lastCall["c1"].calls = {"groups.find"}
  /\ lastCall["c1"].ret = remoteGroups["g1"]

\* C4: with one client and no other actor, users.create is issued at most
\* once per email and never while a remote user of that name exists; every
\* ensure_user call returns the remote user of the email and leaves user.user
\* set to it; a call on a User whose user.user is already set makes no remote
\* call.
C4_EnsureUserIdempotent ==
  /\ \A e \in Emails :
       /\ UserCreatesTotal(OneClient, e) <= 1
       /\ e \notin createOnHeld
       /\ userReturned[e] \subseteq {remoteUsers[e]} \ {0}
  /\ lastCall["c1"].op = "ensure_user" =>
       /\ lastCall["c1"].out = "return"
       /\ lastCall["c1"].ret # 0
       /\ lastCall["c1"].ret = remoteUsers[Email(lastCall["c1"].arg)]
       /\ userObj[lastCall["c1"].arg] = lastCall["c1"].ret
       /\ lastCall["c1"].pre # 0 => lastCall["c1"].calls = {}

\* C4 witness: the user of e1 was created through o1, found through the
\* distinct object o2, and a further ensure_user on o2 made no remote call.
C4_Witness ==
  /\ UserCreatesTotal(OneClient, "e1") = 1
  /\ lastCall["c1"].op = "ensure_user"
  /\ lastCall["c1"].arg = "o2"
  /\ lastCall["c1"].pre # 0
  /\ lastCall["c1"].calls = {}
  /\ userObj["o1"] = userObj["o2"]

\* C10 as stated: with two clients interleaved, at most one create is issued
\* in total for a name (or an email), and no call ends in an exception.
C10_AtMostOneCreateInTotal ==
  /\ \A name \in RaceNames : GroupCreatesTotal(TwoClients, name) <= 1
  /\ \A o \in RaceObjs : UserCreatesTotal(TwoClients, Email(o)) <= 1
  /\ \A c \in TwoClients : lastCall[c].out = "return"

\* C10 amended: with two clients interleaved, each client issues at most one
\* create for a name (or an email), so at most two are issued in total; a
\* call ends in an exception only when the other client has issued its own
\* create for that name; and all calls that return for a name return the
\* same remote object.
C10_AtMostOneCreatePerClient ==
  /\ \A c \in TwoClients :
       /\ \A name \in RaceNames : groupCreates[<<c, name>>] <= 1
       /\ \A o \in RaceObjs : userCreates[<<c, Email(o)>>] <= 1
       /\ (lastCall[c].op = "ensure_group" /\ lastCall[c].out = "raise") =>
            \A d \in TwoClients \ {c} : groupCreates[<<d, lastCall[c].arg>>] = 1
       /\ (lastCall[c].op = "ensure_user" /\ lastCall[c].out = "raise") =>
            \A d \in TwoClients \ {c} : userCreates[<<d, Email(lastCall[c].arg)>>] = 1
  /\ \A name \in RaceNames :
       /\ Cardinality(groupReturned[name]) <= 1
       /\ groupReturned[name] \subseteq {remoteGroups[name]} \ {0}
  /\ \A o \in RaceObjs :
       /\ Cardinality(userReturned[Email(o)]) <= 1
       /\ userReturned[Email(o)] \subseteq {remoteUsers[Email(o)]} \ {0}

\* C10 witness: both clients found g1 missing and both issued groups.create;
\* the second was rejected.
C10_Witness ==
  /\ groupCreates[<<"c1", "g1">>] = 1
  /\ groupCreates[<<"c2", "g1">>] = 1
  /\ lastCall["c2"].op = "ensure_group"
  /\ lastCall["c2"].out = "raise"
  /\ lastCall["c1"].ret = remoteGroups["g1"]

\* C6 as stated: once subnet(id) has returned a value to a client, the
\* client's next subnet(id) call with the same id returns that same value.
C6_SameValueEverAfter ==
  [][(/\ memoCall.op = "subnet"
      /\ memoCall.out = "return"
      /\ memoCall'.client = memoCall.client
      /\ memoCall'.id = memoCall.id)
     => (memoCall'.out = "return" /\ memoCall'.ret = memoCall.ret)]_vars

\* C6 amended: a memoized lookup calls the remote exactly when its cache has
\* no entry for the argument tuple; a call that finds an entry returns the
\* entry without a remote call, whatever the remote holds by then; a call
\* that raises stores nothing; and an entry, once stored, changes only when a
\* listing of that client yields an object of that id (add_memo), which
\* replaces it.
C6_MemoAnswersFromCache ==
  /\ [](memoCall.op = "subnet" =>
          /\ memoCall.cached # 0 =>
               /\ memoCall.out = "return"
               /\ memoCall.ret = memoCall.cached
               /\ ~memoCall.remote
          /\ memoCall.cached = 0 => memoCall.remote)
  /\ [][/\ \A k \in MemoClients \X SubnetIds :
             (subnetCache[k] # 0 /\ subnetCache'[k] # subnetCache[k]) =>
               /\ listing'[k[1]] # listing[k[1]]
               /\ lastYield'[k] = subnetCache'[k]
        /\ (memoCall'.out = "raise" /\ UNCHANGED <<listing, remoteSubnets>>) =>
             UNCHANGED subnetCache]_vars

\* C6 witness: a subnet(id) call answered from an entry no listing ever
\* seeded, while the remote subnet has changed since.
C6_Witness ==
  /\ memoCall.op = "subnet"
  /\ memoCall.cached = 1
  /\ memoCall.yielded = 0
  /\ memoCall.ret = 1
  /\ ~memoCall.remote
  /\ remoteSubnets[memoCall.id] = 2

\* C9: once a listing has yielded a subnet to a client, the cache entry of
\* that client and id is the object yielded last, and a subnet(id) call made
\* then returns it without get_subnet; a step of a listing writes the entry
\* of the item it yields and no other (a direct call writes only its own,
\* and only on a miss).
C9_ListingSeedsMemo ==
  /\ [](/\ \A k \in MemoClients \X SubnetIds :
             lastYield[k] # 0 => subnetCache[k] = lastYield[k]
        /\ (memoCall.op = "subnet" /\ memoCall.yielded # 0) =>
             /\ memoCall.out = "return"
             /\ memoCall.ret = memoCall.yielded
             /\ ~memoCall.remote)
  /\ [][\A k \in MemoClients \X SubnetIds :
          subnetCache'[k] # subnetCache[k] =>
            \/ /\ lastYield'[k] = subnetCache'[k]
               /\ listing[k[1]].state \in {"new", "open"}
               /\ listing'[k[1]].state = "open"
               /\ \A j \in (MemoClients \X SubnetIds) \ {k} :
                    subnetCache'[j] = subnetCache[j]
            \/ /\ memoCall'.client = k[1]
               /\ memoCall'.id = k[2]
               /\ memoCall'.remote
               /\ memoCall'.ret = subnetCache'[k]
               /\ subnetCache[k] = 0]_vars

\* C9 witness: a direct call had memoized s1 as it then was; a listing then
\* yielded the changed s1, overwriting the entry, and has s2 still to yield;
\* s2 has no entry.
C9_Witness ==
  /\ memoCall.op = "subnet"
  /\ memoCall.client = "c1"
  /\ memoCall.id = "s1"
  /\ memoCall.remote
  /\ memoCall.ret = 1
  /\ lastYield[<<"c1", "s1">>] = 2
  /\ subnetCache[<<"c1", "s1">>] = 2
  /\ listing["c1"].state = "open"
  /\ Len(listing["c1"].buf) = 1
  /\ subnetCache[<<"c1", "s2">>] = 0

\* C5: with exactly one of user and group given and the role found,
\* grant_project_access issues roles.grant exactly when the check reports the
\* assignment absent and leaves it present; revoke_project_access issues
\* roles.revoke exactly when it is present and leaves it absent; a revoke
\* right after a grant of the same (role, subject, project) that found the
\* assignment absent issues the revoke and leaves it absent again.
C5_GrantRevokeIdempotent ==
  (roleCall.op \in {"grant", "revoke"} /\ roleCall.out = "return") =>
    LET a == <<remoteRoles[roleCall.role_name], roleCall.user, roleCall.group,
               roleCall.project>> IN
      /\ one_subject(roleCall.user, roleCall.group)
      /\ "roles.check" \in roleCall.calls
      /\ roleCall.op = "grant" =>
           /\ ("roles.grant" \in roleCall.calls) <=> ~roleCall.before
           /\ "roles.revoke" \notin roleCall.calls
           /\ a \in assignments
      /\ roleCall.op = "revoke" =>
           /\ ("roles.revoke" \in roleCall.calls) <=> roleCall.before
           /\ "roles.grant" \notin roleCall.calls
           /\ a \notin assignments
           /\ roleCall.after_grant => "roles.revoke" \in roleCall.calls

\* C5 witness: a revoke that followed a grant of the same assignment, which
\* had found it absent, and revoked it.
C5_Witness ==
  /\ roleCall.op = "revoke"
  /\ roleCall.after_grant
  /\ "roles.revoke" \in roleCall.calls
  /\ roleCall.group = "gA"

\* C8: grant_project_access and revoke_project_access end in ValueError
\* exactly when user and group are both None or both given; such a call
\* makes no remote call and changes neither the remote role assignments nor
\* the cache of role().
C8_ValueErrorBeforeAnyCall ==
  /\ [](roleCall.op # "none" =>
          /\ (roleCall.out = "ValueError") <=>
               ((roleCall.user = "None") <=> (roleCall.group = "None"))
          /\ roleCall.out = "ValueError" => roleCall.calls = {})
  /\ [][roleCall'.out = "ValueError" =>
          UNCHANGED <<assignments, roleCache, remoteRoles>>]_vars

\* C8 witness: a revoke given both a user and a group ended in ValueError
\* with assignments on the remote.
C8_Witness ==
  /\ roleCall.op = "revoke"
  /\ roleCall.out = "ValueError"
  /\ roleCall.user = "u1"
  /\ roleCall.group = "gA"
  /\ assignments # {}

\* C7: every fully iterated volumes(project_id) has yielded exactly the
\* volumes of the all-tenant listing whose project is project_id.
C7_VolumesOfProject ==
  \A g \in Slots :
    vgen[g].state = "done" =>
      vgen[g].out = OfProject(vgen[g].project_id, Len(remoteVolumes))

====
